---- MODULE Spec2Model ----
(* The request-handling layer of scripts/task_reminder.py: module start-up   *)
(* (init_db), the list handler and the five mutating handlers, over a task   *)
(* store owned by database.db_manager and the validators of database.model. *)
(* The two database modules are imported by the script but are not part of  *)
(* the sources at hand; they are modelled from their documented contracts.  *)
EXTENDS Integers, Sequences, FiniteSets, TLC

(* ------------------------------------------------------------------ bounds *)

\* Ids the store hands out before add() is no longer explored.
MaxId == 2

\* Longest description the validator accepts (database.model); the real limit
\* is scaled down so that texts on both sides of it can be enumerated.
MAX_DESCRIPTION_LENGTH == 1

(* ------------------------------------------------------------ python values *)

\* An Optional[str] holding text: None, or a sequence of characters.
NoneText == [none |-> TRUE, str |-> <<>>]

SomeText(s) == [none |-> FALSE, str |-> s]

\* An Optional[str] holding a word (a priority, a header value).
NoneWord == [none |-> TRUE, str |-> ""]

SomeWord(w) == [none |-> FALSE, str |-> w]

Chars == {" ", "a", "b"}

\* Every text of at most n characters.
TextsUpTo(n) == UNION {[1..k -> Chars] : k \in 0..n}

\* A text one character past the validator's limit.
OverlongText == [i \in 1..(MAX_DESCRIPTION_LENGTH + 1) |-> "a"]

\* The description field of a submitted form: absent, any text within the
\* limit (empty and blank included), or one past it.
DescriptionInputs ==
    {NoneText} \cup
    {SomeText(s) : s \in TextsUpTo(MAX_DESCRIPTION_LENGTH) \cup {OverlongText}}

Priorities == {"Low", "Medium", "High"}

\* The priority field of a submitted form: absent, a recognized value that is
\* not the default, or an unrecognized one.
PriorityInputs == {NoneWord, SomeWord("High"), SomeWord("Urgent")}

\* The X-Requested-With header: absent, the script marker, or something else.
HeaderInputs == {NoneWord, SomeWord("XMLHttpRequest"), SomeWord("xmlhttprequest")}

\* <int:task_id> of a URL: 0 is never assigned, 1..MaxId may be.
TaskIdInputs == 0..MaxId

Forms == [description : DescriptionInputs, priority : PriorityInputs]

(* --------------------------------------------------------------- validation *)

\* str.strip() leaves nothing.
IsBlank(s) == \A i \in DOMAIN s : s[i] = " "

\* validate_task_description(description) -> (is_valid, error_message)
validate_task_description(description) ==
    IF description.none \/ IsBlank(description.str)
    THEN [is_valid |-> FALSE, error_message |-> "description empty"]
    ELSE IF Len(description.str) > MAX_DESCRIPTION_LENGTH
    THEN [is_valid |-> FALSE, error_message |-> "description too long"]
    ELSE [is_valid |-> TRUE, error_message |-> ""]

\* validate_priority(priority) -> bool
validate_priority(priority) == ~priority.none /\ priority.str \in Priorities

(* -------------------------------------------------------------- persistence *)

Task(id, description, priority, completed) ==
    [id |-> id, description |-> description, priority |-> priority,
     completed |-> completed]

\* Some row of ts carries this id.
Exists(ts, id) == \E i \in DOMAIN ts : ts[i].id = id

\* add_task that does not advance the id it hands out.
add_task_stale_id(ts, nid, description, priority) ==
    [tasks |-> Append(ts, Task(nid, description, priority, FALSE)),
     nextId |-> nid,
     ret |-> nid]

\* add_task(description, priority) -> id: a fresh id, the row appended.
add_task(ts, nid, description, priority) ==
    [tasks |-> Append(ts, Task(nid, description, priority, FALSE)),
     nextId |-> nid + 1,
     ret |-> nid]

\* update_task(id, description, priority) -> bool
update_task(ts, id, description, priority) ==
    [tasks |-> [i \in DOMAIN ts |->
                  IF ts[i].id = id
                  THEN [ts[i] EXCEPT !.description = description,
                                     !.priority = priority]
                  ELSE ts[i]],
     ret |-> Exists(ts, id)]

KeepsId(t, id) == t.id # id

\* delete_task(id) -> bool
delete_task(ts, id) ==
    [tasks |-> SelectSeq(ts, LAMBDA t : KeepsId(t, id)),
     ret |-> Exists(ts, id)]

\* mark_task(id, completed) -> bool
mark_task(ts, id, completed) ==
    [tasks |-> [i \in DOMAIN ts |->
                  IF ts[i].id = id
                  THEN [ts[i] EXCEPT !.completed = completed]
                  ELSE ts[i]],
     ret |-> Exists(ts, id)]

\* The record of a call to the persistence layer: what was passed, whether it
\* raised, and what it returned (found for the bool mutators, newId for add).
Call(op, id, description, priority, completed, raised, found, newId) ==
    [op |-> op, id |-> id, description |-> description, priority |-> priority,
     completed |-> completed, raised |-> raised, found |-> found,
     newId |-> newId]

NoCall == Call("none", -1, <<>>, "", FALSE, FALSE, FALSE, -1)

(* ---------------------------------------------------------------- responses *)

\* A formatted message: its fixed text and the values it embeds.
Msg(text, description, id, priority) ==
    [text |-> text, description |-> description, id |-> id,
     priority |-> priority]

NoMsg == Msg("", <<>>, -1, "")

\* The validator's error_message, shown as it is.
ValidationMsg(error_message) == Msg(error_message, <<>>, -1, "")

\* jsonify({'message': message, 'status': status})
jsonify(message, status) ==
    [kind |-> "json",
     body |-> [message |-> message, status |-> status],
     flashed |-> <<>>, location |-> "", tasks |-> <<>>]

\* flash(message, category); return redirect(url_for('index'))
flash_redirect(message, category) ==
    [kind |-> "redirect",
     body |-> [message |-> NoMsg, status |-> ""],
     flashed |-> <<[message |-> message, category |-> category]>>,
     location |-> "index", tasks |-> <<>>]

\* render_template('index.html', tasks=tasks), with what was flashed
render_index(ts, flashes) ==
    [kind |-> "page",
     body |-> [message |-> NoMsg, status |-> ""],
     flashed |-> flashes, location |-> "", tasks |-> ts]

NoResponse ==
    [kind |-> "none", body |-> [message |-> NoMsg, status |-> ""],
     flashed |-> <<>>, location |-> "", tasks |-> <<>>]

\* request.headers.get('X-Requested-With') == 'XMLHttpRequest'
IsScriptRequest(header) == ~header.none /\ header.str = "XMLHttpRequest"

\* The tail with the header compared without regard to case.
respond_any_case(header, message, status) ==
    IF ~header.none /\ header.str \in {"XMLHttpRequest", "xmlhttprequest"}
    THEN jsonify(message, status)
    ELSE flash_redirect(message, status)

\* The tail of every mutating handler: JSON for a script, else flash + redirect.
respond(header, message, status) ==
    IF IsScriptRequest(header)
    THEN jsonify(message, status)
    ELSE flash_redirect(message, status)

\* What a handler leaves behind: the store, the id counter, the persistence
\* call it made (if any) and its response.
Result(ts, nid, c, r) == [tasks |-> ts, nextId |-> nid, call |-> c, resp |-> r]

(* ----------------------------------------------------------------- handlers *)

\* The handler going on whatever the validator said.
accept_any_description(description) == TRUE

\* The handler testing only "if not description" in place of the validator.
only_checks_presence(description) ==
    ~description.none /\ description.str # <<>>

\* is_valid, error_message = validate_task_description(description);
\* "if not is_valid" turns the request away.
description_accepted(description) ==
    validate_task_description(description).is_valid

\* The handler passing the submitted priority on without the fallback.
unchecked_priority(priority) == priority.str

\* if not validate_priority(priority): priority = 'Medium'
checked_priority(priority) ==
    IF validate_priority(priority) THEN priority.str ELSE "Medium"

\* The early return of add and update on a rejected description.
reject_description(header, error_message) ==
    IF IsScriptRequest(header)
    THEN jsonify(ValidationMsg(error_message), "error")
    ELSE flash_redirect(ValidationMsg(error_message), "error")

\* The handler without its except clause: the exception leaves the handler
\* and the framework answers 500.
storage_error_escapes(header, text) ==
    [kind |-> "error500", body |-> [message |-> NoMsg, status |-> ""],
     flashed |-> <<>>, location |-> "", tasks |-> <<>>]

\* except Exception: the generic failure text, status 'error'.
on_storage_error(header, text) ==
    respond(header, Msg(text, <<>>, -1, ""), "error")

\* The handler not looking at what the mutator returned.
on_returned_ignored(header, found, task_id, success_message) ==
    respond(header, success_message, "success")

\* if <mutator>(...): success message, 'success'; else: not found, 'error'.
on_returned(header, found, task_id, success_message) ==
    IF found
    THEN respond(header, success_message, "success")
    ELSE respond(header, Msg("Task ID not found.", <<>>, task_id, ""), "error")

\* add(): POST /add
add_handler(ts, nid, form, header, storageOk) ==
    LET description == form.description
        submitted == IF form.priority.none THEN SomeWord("Medium")
                     ELSE form.priority
        priority == checked_priority(submitted)
    IN  IF ~description_accepted(description)
        THEN Result(ts, nid, NoCall,
                    reject_description(header,
                        validate_task_description(description).error_message))
        ELSE IF ~storageOk
        THEN Result(ts, nid,
                    Call("add_task", -1, description.str, priority, FALSE,
                         TRUE, FALSE, -1),
                    on_storage_error(header,
                        "Failed to add task. Please try again."))
        ELSE LET r == add_task(ts, nid, description.str, priority)
             IN  Result(r.tasks, r.nextId,
                        Call("add_task", -1, description.str, priority, FALSE,
                             FALSE, FALSE, r.ret),
                        respond(header,
                                Msg("Task added", description.str, r.ret,
                                    priority),
                                "success"))

\* update(task_id): POST /update/<int:task_id>
update_handler(ts, nid, task_id, form, header, storageOk) ==
    LET new_description == form.description
        new_priority == checked_priority(form.priority)
    IN  IF ~description_accepted(new_description)
        THEN Result(ts, nid, NoCall,
                    reject_description(header,
                        validate_task_description(new_description).error_message))
        ELSE IF ~storageOk
        THEN Result(ts, nid,
                    Call("update_task", task_id, new_description.str,
                         new_priority, FALSE, TRUE, FALSE, -1),
                    on_storage_error(header,
                        "Failed to update task. Please try again."))
        ELSE LET r == update_task(ts, task_id, new_description.str,
                                  new_priority)
             IN  Result(r.tasks, nid,
                        Call("update_task", task_id, new_description.str,
                             new_priority, FALSE, FALSE, r.ret, -1),
                        on_returned(header, r.ret, task_id,
                                    Msg("Task updated", new_description.str,
                                        task_id, new_priority)))

\* delete(task_id): GET /delete/<int:task_id>
delete_handler(ts, nid, task_id, header, storageOk) ==
    IF ~storageOk
    THEN Result(ts, nid,
                Call("delete_task", task_id, <<>>, "", FALSE, TRUE, FALSE, -1),
                on_storage_error(header,
                    "Failed to delete task. Please try again."))
    ELSE LET r == delete_task(ts, task_id)
         IN  Result(r.tasks, nid,
                    Call("delete_task", task_id, <<>>, "", FALSE, FALSE,
                         r.ret, -1),
                    on_returned(header, r.ret, task_id,
                                Msg("Task ID deleted.", <<>>, task_id, "")))

\* complete() left calling delete_task, as a route copied from delete() would.
complete_calls_delete(ts, nid, task_id, header, storageOk) ==
    delete_handler(ts, nid, task_id, header, storageOk)

\* complete(task_id): GET /complete/<int:task_id>
complete_handler(ts, nid, task_id, header, storageOk) ==
    IF ~storageOk
    THEN Result(ts, nid,
                Call("mark_task", task_id, <<>>, "", TRUE, TRUE, FALSE, -1),
                on_storage_error(header,
                    "Failed to mark task as complete. Please try again."))
    ELSE LET r == mark_task(ts, task_id, TRUE)
         IN  Result(r.tasks, nid,
                    Call("mark_task", task_id, <<>>, "", TRUE, FALSE,
                         r.ret, -1),
                    on_returned(header, r.ret, task_id,
                                Msg("Task ID marked as completed.", <<>>,
                                    task_id, "")))

\* incomplete(task_id): GET /incomplete/<int:task_id>
incomplete_handler(ts, nid, task_id, header, storageOk) ==
    IF ~storageOk
    THEN Result(ts, nid,
                Call("mark_task", task_id, <<>>, "", FALSE, TRUE, FALSE, -1),
                on_storage_error(header,
                    "Failed to mark task as incomplete. Please try again."))
    ELSE LET r == mark_task(ts, task_id, FALSE)
         IN  Result(r.tasks, nid,
                    Call("mark_task", task_id, <<>>, "", FALSE, FALSE,
                         r.ret, -1),
                    on_returned(header, r.ret, task_id,
                                Msg("Task ID marked as incomplete.", <<>>,
                                    task_id, "")))

\* index(): GET /
index_handler(ts, nid, storageOk) ==
    IF ~storageOk
    THEN Result(ts, nid,
                Call("load_tasks", -1, <<>>, "", FALSE, TRUE, FALSE, -1),
                render_index(<<>>,
                    <<[message |-> Msg("An error occurred while loading tasks.",
                                       <<>>, -1, ""),
                       category |-> "error"]>>))
    ELSE Result(ts, nid,
                Call("load_tasks", -1, <<>>, "", FALSE, FALSE, FALSE, -1),
                render_index(ts, <<>>))

(* -------------------------------------------------------------------- state *)

VARIABLES
    phase,      \* "loading", "serving" or "aborted": where the process is
    dbReady,    \* init_db() has returned
    tasks,      \* the rows of the task store, in insertion order
    nextId,     \* the id the store gives the next row
    req,        \* the request being served, NoRequest between requests
    call,       \* the persistence call that request made
    resp        \* the response its handler returned

vars == <<phase, dbReady, tasks, nextId, req, call, resp>>

NoForm == [description |-> NoneText, priority |-> NoneWord]

Request(handler, task_id, form, header, storageOk) ==
    [handler |-> handler, task_id |-> task_id, form |-> form,
     header |-> header, storageOk |-> storageOk]

NoRequest == Request("none", -1, NoForm, NoneWord, TRUE)

Init ==
    /\ phase = "loading"
    /\ dbReady = FALSE
    /\ tasks = <<>>
    /\ nextId = 1
    /\ req = NoRequest
    /\ call = NoCall
    /\ resp = NoResponse

\* Module load without the "raise": the failure is logged and the app serves.
module_load_swallowing(initOk) == [phase |-> "serving", dbReady |-> initOk]

\* What module load makes of init_db(): on success the routes are defined and
\* the app serves; on an exception it is logged and raised again.
module_load(initOk) ==
    IF initOk
    THEN [phase |-> "serving", dbReady |-> TRUE]
    ELSE [phase |-> "aborted", dbReady |-> FALSE]

\* try: init_db() ... except Exception: ... raise
Startup(initOk) ==
    /\ phase = "loading"
    /\ phase' = module_load(initOk).phase
    /\ dbReady' = module_load(initOk).dbReady
    /\ UNCHANGED <<tasks, nextId, req, call, resp>>

\* The server takes one request at a time, once the module has loaded.
Idle == phase = "serving" /\ req = NoRequest

\* A handler ran: the store, the call and the response are what it left.
Handled(r, request) ==
    /\ tasks' = r.tasks
    /\ nextId' = r.nextId
    /\ call' = r.call
    /\ resp' = r.resp
    /\ req' = request
    /\ UNCHANGED <<phase, dbReady>>

index(storageOk) ==
    /\ Idle
    /\ Handled(index_handler(tasks, nextId, storageOk),
               Request("index", -1, NoForm, NoneWord, storageOk))

add(form, header, storageOk) ==
    /\ Idle
    /\ (description_accepted(form.description) /\ storageOk) => nextId <= MaxId
    /\ Handled(add_handler(tasks, nextId, form, header, storageOk),
               Request("add", -1, form, header, storageOk))

update(task_id, form, header, storageOk) ==
    /\ Idle
    /\ Handled(update_handler(tasks, nextId, task_id, form, header, storageOk),
               Request("update", task_id, form, header, storageOk))

delete(task_id, header, storageOk) ==
    /\ Idle
    /\ Handled(delete_handler(tasks, nextId, task_id, header, storageOk),
               Request("delete", task_id, NoForm, header, storageOk))

complete(task_id, header, storageOk) ==
    /\ Idle
    /\ Handled(complete_handler(tasks, nextId, task_id, header, storageOk),
               Request("complete", task_id, NoForm, header, storageOk))

incomplete(task_id, header, storageOk) ==
    /\ Idle
    /\ Handled(incomplete_handler(tasks, nextId, task_id, header, storageOk),
               Request("incomplete", task_id, NoForm, header, storageOk))

\* The handler has returned: the response leaves and the request context,
\* which holds nothing between requests, is torn down.
request_done ==
    /\ req # NoRequest
    /\ req' = NoRequest
    /\ call' = NoCall
    /\ resp' = NoResponse
    /\ UNCHANGED <<phase, dbReady, tasks, nextId>>

Next ==
    \/ \E initOk \in BOOLEAN : Startup(initOk)
    \/ request_done
    \/ \E storageOk \in BOOLEAN : index(storageOk)
    \/ \E form \in Forms, header \in HeaderInputs, storageOk \in BOOLEAN :
          add(form, header, storageOk)
    \/ \E task_id \in TaskIdInputs, form \in Forms, header \in HeaderInputs,
          storageOk \in BOOLEAN :
          update(task_id, form, header, storageOk)
    \/ \E task_id \in TaskIdInputs, header \in HeaderInputs,
          storageOk \in BOOLEAN :
          delete(task_id, header, storageOk)
    \/ \E task_id \in TaskIdInputs, header \in HeaderInputs,
          storageOk \in BOOLEAN :
          complete(task_id, header, storageOk)
    \/ \E task_id \in TaskIdInputs, header \in HeaderInputs,
          storageOk \in BOOLEAN :
          incomplete(task_id, header, storageOk)

Spec == Init /\ [][Next]_vars

(* ------------------------------------------------------------- observations *)

Mutating == {"add", "update", "delete", "complete", "incomplete"}

\* The status a client reads off a response: the JSON body's, or the category
\* of the flashed message.
RespStatus(r) ==
    IF r.kind = "json" THEN r.body.status
    ELSE IF r.kind = "redirect" /\ Len(r.flashed) = 1 THEN r.flashed[1].category
    ELSE ""

\* The message a client reads off a response.
RespMessage(r) ==
    IF r.kind = "json" THEN r.body.message
    ELSE IF r.kind = "redirect" /\ Len(r.flashed) = 1 THEN r.flashed[1].message
    ELSE NoMsg

\* A description is missing, empty or blank, or too long.
InvalidDescription(d) ==
    \/ d.none
    \/ d.str = <<>>
    \/ \A i \in DOMAIN d.str : d.str[i] = " "
    \/ Len(d.str) > MAX_DESCRIPTION_LENGTH

Recognized(p) == ~p.none /\ p.str \in {"Low", "Medium", "High"}

\* This step is handler h serving a request.
Serves(h) == req = NoRequest /\ req'.handler = h

Ids(ts) == {ts[i].id : i \in DOMAIN ts}

Rows(ts) == {ts[i] : i \in DOMAIN ts}

(* ----------------------------------------------------------------------- C1 *)

\* C1: when add or update is given a description that fails validation, the
\* response has status 'error' and carries the validator's message, no
\* persistence mutator is called and the store is left as it was, for update
\* whether or not the id exists.
C1_RejectedDescriptionLeavesStore ==
    [][ ((Serves("add") \/ Serves("update"))
          /\ InvalidDescription(req'.form.description))
        => /\ tasks' = tasks
           /\ nextId' = nextId
           /\ call' = NoCall
           /\ RespStatus(resp') = "error"
           /\ RespMessage(resp') =
                 ValidationMsg(
                     validate_task_description(req'.form.description).error_message)
           /\ RespMessage(resp').text # "" ]_vars

\* An update of an id that exists was turned away for its blank description.
C1_Witness ==
    /\ req.handler = "update"
    /\ req.form.description = SomeText(<<" ">>)
    /\ req.task_id \in Ids(tasks)
    /\ RespStatus(resp) = "error"

(* ----------------------------------------------------------------------- C2 *)

\* C2: the priority add and update pass to persistence is one of Low, Medium,
\* High: a recognized submitted value unchanged, anything else (or nothing)
\* as Medium; an unrecognized priority alone never stops the request, which
\* reaches persistence and succeeds when persistence does.
C2_PriorityPassedIsRecognized ==
    (req.handler \in {"add", "update"} /\ ~InvalidDescription(req.form.description))
    => /\ call.op = (IF req.handler = "add" THEN "add_task" ELSE "update_task")
       /\ call.priority \in {"Low", "Medium", "High"}
       /\ Recognized(req.form.priority) => call.priority = req.form.priority.str
       /\ ~Recognized(req.form.priority) => call.priority = "Medium"
       /\ (~call.raised /\ (req.handler = "add" \/ call.found))
             => /\ RespStatus(resp) = "success"
                /\ RespMessage(resp).priority = call.priority

\* An update that submitted an unrecognized priority succeeded.
C2_Witness ==
    /\ req.handler = "update"
    /\ req.form.priority = SomeWord("Urgent")
    /\ call.priority = "Medium"
    /\ RespStatus(resp) = "success"

(* ----------------------------------------------------------------------- C3 *)

FailureText(h) ==
    CASE h = "add" -> "Failed to add task. Please try again."
      [] h = "update" -> "Failed to update task. Please try again."
      [] h = "delete" -> "Failed to delete task. Please try again."
      [] h = "complete" -> "Failed to mark task as complete. Please try again."
      [] h = "incomplete" -> "Failed to mark task as incomplete. Please try again."
      [] OTHER -> ""

\* C3: when the persistence call of a mutating handler raises, the handler
\* still returns a JSON or redirect response with status 'error' and its
\* generic 'Failed to ...' message, and the server goes on serving.
C3_StorageErrorIsCaught ==
    (req.handler \in Mutating /\ call.raised)
    => /\ resp.kind \in {"json", "redirect"}
       /\ RespStatus(resp) = "error"
       /\ RespMessage(resp) = Msg(FailureText(req.handler), <<>>, -1, "")
       /\ phase = "serving"

\* A delete of a stored task hit a storage error.
C3_Witness ==
    /\ req.handler = "delete"
    /\ call.raised
    /\ req.task_id \in Ids(tasks)

(* ----------------------------------------------------------------------- C4 *)

ByTaskId == {"update", "delete", "complete", "incomplete"}

NotFoundMsg(id) == Msg("Task ID not found.", <<>>, id, "")

\* C4 as stated: every update, delete, complete or incomplete request for an
\* id that no stored task has is answered 'Task ID <id> not found.' with
\* status 'error', persistence having returned false and the store unchanged.
C4_AsStated ==
    [][ (\E h \in ByTaskId : Serves(h)) /\ req'.task_id \notin Ids(tasks)
        => /\ call'.op # "none" /\ ~call'.raised /\ ~call'.found
           /\ tasks' = tasks
           /\ RespStatus(resp') = "error"
           /\ RespMessage(resp') = NotFoundMsg(req'.task_id) ]_vars

\* C4, amended: when the request reaches persistence (for update, its
\* description passed validation) and the persistence call returns rather than
\* raises, an id that no stored task has makes it return false, leaves every
\* stored task unchanged and is answered 'Task ID <id> not found.' with status
\* 'error'; and a response has status 'success' only when the persistence
\* call returned true.
C4_UnknownIdIsReported ==
    [][ (\E h \in ByTaskId : Serves(h))
        => /\ (req'.task_id \notin Ids(tasks) /\ call'.op # "none"
                 /\ ~call'.raised)
              => /\ ~call'.found
                 /\ tasks' = tasks
                 /\ RespStatus(resp') = "error"
                 /\ RespMessage(resp') = NotFoundMsg(req'.task_id)
           /\ RespStatus(resp') = "success"
              => call'.op # "none" /\ ~call'.raised /\ call'.found ]_vars

\* A complete request for an id that is not stored, with other tasks stored,
\* came back from persistence as not found.
C4_Witness ==
    /\ req.handler = "complete"
    /\ call.op = "mark_task" /\ ~call.raised /\ ~call.found
    /\ req.task_id \notin Ids(tasks)
    /\ Len(tasks) > 0
    /\ RespMessage(resp) = NotFoundMsg(req.task_id)

(* ----------------------------------------------------------------------- C5 *)

\* No two rows of ts carry the same id.
UniqueIds(ts) == \A i, j \in DOMAIN ts : ts[i].id = ts[j].id => i = j

\* C5: a successful add leaves the store with exactly one new task, after the
\* ones already there, holding the description and priority passed to
\* add_task and completed = false; its id is the id add_task returned (the one
\* the response reports) and no other stored task has it. So in every
\* reachable state no two stored tasks share an id.
C5_AddStoresOneFreshTask ==
    /\ [](UniqueIds(tasks))
    /\ [][ (Serves("add") /\ RespStatus(resp') = "success")
           => /\ Len(tasks') = Len(tasks) + 1
              /\ \A i \in DOMAIN tasks : tasks'[i] = tasks[i]
              /\ tasks'[Len(tasks')].description = req'.form.description.str
              /\ tasks'[Len(tasks')].description = call'.description
              /\ tasks'[Len(tasks')].priority = call'.priority
              /\ tasks'[Len(tasks')].completed = FALSE
              /\ tasks'[Len(tasks')].id = call'.newId
              /\ tasks'[Len(tasks')].id = RespMessage(resp').id
              /\ tasks'[Len(tasks')].id \notin Ids(tasks) ]_vars

\* An add succeeded with a task already stored: the store holds the new task
\* after the older one.
C5_Witness ==
    /\ req.handler = "add"
    /\ RespStatus(resp) = "success"
    /\ Len(tasks) = 2
    /\ tasks[2].id = call.newId

(* ----------------------------------------------------------------------- C6 *)

\* C6: in every reachable state each stored task has a description that
\* passes validation, a priority among Low, Medium, High and a boolean
\* completed flag.
C6_StoredTasksAreValid ==
    \A i \in DOMAIN tasks :
        /\ ~InvalidDescription(SomeText(tasks[i].description))
        /\ tasks[i].priority \in {"Low", "Medium", "High"}
        /\ tasks[i].completed \in BOOLEAN

\* Two tasks are stored, and an update that submitted an unrecognized priority
\* has just rewritten one of them.
C6_Witness ==
    /\ Len(tasks) = 2
    /\ req.handler = "update"
    /\ req.form.priority = SomeWord("Urgent")
    /\ call.found
    /\ \E i \in DOMAIN tasks :
          tasks[i].id = req.task_id /\ tasks[i].priority = "Medium"

(* ----------------------------------------------------------------------- C7 *)

\* What the handler of request r returns from store ts when the request
\* carries header h instead of its own.
ResultUnderHeader(r, ts, nid, h) ==
    CASE r.handler = "add" ->
            add_handler(ts, nid, r.form, h, r.storageOk)
      [] r.handler = "update" ->
            update_handler(ts, nid, r.task_id, r.form, h, r.storageOk)
      [] r.handler = "delete" ->
            delete_handler(ts, nid, r.task_id, h, r.storageOk)
      [] r.handler = "complete" ->
            complete_handler(ts, nid, r.task_id, h, r.storageOk)
      [] r.handler = "incomplete" ->
            incomplete_handler(ts, nid, r.task_id, h, r.storageOk)

\* C7: a mutating handler answers with a JSON body {message, status} exactly
\* when X-Requested-With is XMLHttpRequest, and otherwise with one flashed
\* message and a redirect to the task list; status is 'success' or 'error';
\* and the same request sent with any other header value has the same effect
\* on the store and gets the same message and status, in the other form.
C7_FormFollowsHeader ==
    /\ [](req.handler \in Mutating
          => /\ req.header = SomeWord("XMLHttpRequest")
                => /\ resp.kind = "json"
                   /\ resp.flashed = <<>>
                   /\ resp.body.status \in {"success", "error"}
                   /\ resp.body.message # NoMsg
             /\ req.header # SomeWord("XMLHttpRequest")
                => /\ resp.kind = "redirect"
                   /\ resp.location = "index"
                   /\ Len(resp.flashed) = 1
                   /\ resp.flashed[1].category \in {"success", "error"}
                   /\ resp.flashed[1].message # NoMsg
                   /\ resp.body.message = NoMsg)
    /\ [][ (\E h \in Mutating : Serves(h))
           => \A other \in HeaderInputs :
                 /\ RespMessage(ResultUnderHeader(req', tasks, nextId, other).resp)
                       = RespMessage(resp')
                 /\ RespStatus(ResultUnderHeader(req', tasks, nextId, other).resp)
                       = RespStatus(resp')
                 /\ ResultUnderHeader(req', tasks, nextId, other).tasks = tasks'
       ]_vars

\* An incomplete request whose header differs from the marker only in case
\* was answered with a flash and a redirect.
C7_Witness ==
    /\ req.handler = "incomplete"
    /\ req.header = SomeWord("xmlhttprequest")
    /\ resp.kind = "redirect"
    /\ RespStatus(resp) = "success"

(* ----------------------------------------------------------------------- C8 *)

\* C8: a handler runs only in a process whose init_db() succeeded, and a
\* process whose init_db() failed is aborted and never serves; once serving,
\* the process stays serving whatever a handler meets, and a load failure in
\* the list handler renders an empty task list with an error flash.
C8_InitBeforeServing ==
    /\ [](req # NoRequest => dbReady /\ phase = "serving")
    /\ [](phase = "aborted" => ~dbReady /\ req = NoRequest /\ resp = NoResponse)
    /\ [][phase = "aborted" => phase' = "aborted"]_vars
    /\ [][phase = "serving" => phase' = "serving"]_vars
    /\ []((req.handler = "index" /\ call.raised)
          => /\ resp.kind = "page"
             /\ resp.tasks = <<>>
             /\ Len(resp.flashed) = 1
             /\ resp.flashed[1].category = "error")

\* The list handler met a load failure while tasks were stored.
C8_Witness ==
    /\ phase = "serving"
    /\ req.handler = "index"
    /\ call.raised
    /\ Len(tasks) > 0
    /\ resp.kind = "page"

(* ---------------------------------------------------------------------- C10 *)

\* C10: ids never change: a step that is not a delete keeps every row in its
\* place with its id. A successful update changes only the description and
\* priority of the task it names, a successful complete or incomplete only
\* its completed flag, a successful delete removes that task alone; every
\* other stored task is unchanged.
C10_MutatorsTouchOnlyTheirTask ==
    [][ /\ ~Serves("delete")
           => /\ Len(tasks') >= Len(tasks)
              /\ \A i \in DOMAIN tasks : tasks'[i].id = tasks[i].id
        /\ (Serves("update") /\ RespStatus(resp') = "success")
           => /\ Len(tasks') = Len(tasks)
              /\ \A i \in DOMAIN tasks :
                    /\ tasks'[i].completed = tasks[i].completed
                    /\ tasks[i].id # req'.task_id => tasks'[i] = tasks[i]
        /\ ((Serves("complete") \/ Serves("incomplete"))
              /\ RespStatus(resp') = "success")
           => /\ Len(tasks') = Len(tasks)
              /\ \A i \in DOMAIN tasks :
                    /\ tasks'[i].description = tasks[i].description
                    /\ tasks'[i].priority = tasks[i].priority
                    /\ tasks[i].id # req'.task_id => tasks'[i] = tasks[i]
        /\ (Serves("delete") /\ RespStatus(resp') = "success")
           => /\ Len(tasks') = Len(tasks) - 1
              /\ Rows(tasks') = {t \in Rows(tasks) : t.id # req'.task_id}
              /\ req'.task_id \in Ids(tasks) ]_vars

\* An update succeeded on a completed task while another task was stored: the
\* task is still completed.
C10_Witness ==
    /\ req.handler = "update"
    /\ RespStatus(resp) = "success"
    /\ Len(tasks) = 2
    /\ \E i \in DOMAIN tasks : tasks[i].id = req.task_id /\ tasks[i].completed

====
